---- MODULE Spec2Model ----
(***************************************************************************)
(* Model of the cubejs client: the response classifier _error_handler,    *)
(* one call of get_measures (src/cubejs/client.py) and the tenacity retry *)
(* policy that decorates it (retry_if_exception_type(RetryableError),     *)
(* wait_exponential(multiplier=2, min=1, max=30), stop_after_attempt(5)). *)
(* Spec is one call, SpecFair the same call under the fairness the event  *)
(* loop and the client's timeout provide, SpecModel the construction of a *)
(* CubeJSRequest (src/cubejs/model.py), assignments to it, its payload    *)
(* and the payload read back, SpecTwo two concurrent calls, SpecWire one  *)
(* call with the HTTP requests it sends while another task assigns to its *)
(* arguments.                                                             *)
(***************************************************************************)
EXTENDS Integers, Sequences, FiniteSets, TLC

VARIABLES
    pc,              \* position of the call: attempt, awaiting, classify, parse,
                     \* decide, sleeping, returned, raised
    attempt_number,  \* tenacity's retry_state.attempt_number (starts at 1)
    posts,           \* number of POSTs issued by this call
    client_open,     \* TRUE while the httpx.AsyncClient of the attempt is open
    clients_opened,  \* number of httpx.AsyncClient objects this call has entered
    clients_closed,  \* number of them it has left (closed)
    response,        \* the httpx response of the current attempt, or NoResponse
    exc,             \* the exception raised by the current attempt, or NoException
    value,           \* the value returned by the current attempt, or NoValue
    log,             \* outcome kind of every finished attempt, in order
    waits,           \* the backoff sleeps (seconds) of the call, in order
    raised,          \* the exception that reached the caller, or NoException
    result,          \* the value that reached the caller, or NoValue
    wire             \* the HTTP requests this call has sent, in order

\* the caller's side of a call: building the request, and the payload sent
VARIABLES
    mpc,             \* called, new, built, invalid, sent, read
    auth,            \* the CubeJSAuth the caller passes
    req_in,          \* the field values the caller builds the request from
    request,         \* the CubeJSRequest built from them, or NoRequest
    verror,          \* the validation error of the construction, or "none"
    payload,         \* the JSON payload of the POST, or NoPayload
    read_back,       \* the filters validated back from the payload, or None
    assignments      \* number of assignments made to auth and request since
                     \* they were constructed

\* two calls of get_measures running on one event loop
VARIABLES
    calls,           \* the state of each call
    statistics       \* get_measures.retry.statistics: the one dictionary of the
                     \* retrying object that decorates get_measures; every call
                     \* writes it and no stop, wait or retry rule reads it

\* the peer of the awaited POST
VARIABLES
    dripping         \* TRUE while the peer sends its answer in pieces, each
                     \* one less than the client's timeout after the last

callVars == <<pc, attempt_number, posts, client_open, clients_opened,
              clients_closed, response, exc, value, log,
              waits, raised, result, wire>>

modelVars == <<mpc, auth, req_in, request, verror, payload, read_back, assignments>>

twoVars == <<calls, statistics>>

peerVars == <<dripping>>

vars == <<callVars, modelVars, twoVars, peerVars>>

-----------------------------------------------------------------------------
(* Bounds of the model *)

\* longest run of blanks put in front of and behind a response body
MaxPad == 1
\* attempt numbers over which the backoff schedule is tabulated
MaxSchedule == 6

(* Constants of the program *)

\* stop=tenacity.stop_after_attempt(5)
STOP_AFTER_ATTEMPT == 5
\* wait=tenacity.wait_exponential(multiplier=2, min=1, max=30)
WAIT_MULTIPLIER == 2
WAIT_MIN == 1
WAIT_MAX == 30
\* tenacity.wait_exponential's default exp_base
WAIT_EXP_BASE == 2
\* httpx.AsyncClient(timeout=60)
CLIENT_TIMEOUT == 60

-----------------------------------------------------------------------------
(* Text helpers: Python's `sub in text` and JSON's blank-insensitivity *)

Contains(text, sub) ==
    \E i \in 1..(Len(text) - Len(sub) + 1) : SubSeq(text, i, i + Len(sub) - 1) = sub

RECURSIVE Blanks(_)
Blanks(n) == IF n = 0 THEN "" ELSE " " \o Blanks(n - 1)

RECURSIVE LStrip(_)
LStrip(text) ==
    IF Len(text) > 0 /\ SubSeq(text, 1, 1) = " "
    THEN LStrip(SubSeq(text, 2, Len(text)))
    ELSE text

RECURSIVE RStrip(_)
RStrip(text) ==
    IF Len(text) > 0 /\ SubSeq(text, Len(text), Len(text)) = " "
    THEN RStrip(SubSeq(text, 1, Len(text) - 1))
    ELSE text

Min(a, b) == IF a < b THEN a ELSE b
Max(a, b) == IF a > b THEN a ELSE b

RECURSIVE Pow(_, _)
Pow(b, n) == IF n = 0 THEN 1 ELSE b * Pow(b, n - 1)

-----------------------------------------------------------------------------
(* The responses the server may send *)

ContinueWait == "Continue wait"

DataEmpty   == "{\"data\": []}"
DataOneRow  == "{\"data\": [{\"a.b\": \"2023-01-01\", \"a.c\": 42}]}"
DataTwoRows == "{\"data\": [{\"s\": \"completed\", \"n\": 42}, {\"s\": \"processing\", \"n\": 13}]}"
DataWait    == "{\"data\": [{\"s\": \"Continue wait\"}]}"
DataTyped   == "{\"data\": [{\"d\": \"x\", \"n\": 7, \"f\": 1.5, \"z\": null}]}"
DataBool    == "{\"data\": [{\"b\": true}]}"
DataNested  == "{\"data\": [{\"a\": [1]}]}"
ErrorWait   == "{\"error\": \"Continue wait\"}"
ErrorOther  == "{\"error\": \"x\"}"

Cores == { "", "x", "Bad Gateway", ContinueWait, "continue wait", "Continue",
           "Continue wai", DataEmpty, DataOneRow, DataTwoRows, DataWait,
           DataTyped, DataBool, DataNested, ErrorWait, ErrorOther }

Texts == { Blanks(n) \o core \o Blanks(m) : n \in 0..MaxPad, m \in 0..MaxPad, core \in Cores }

Statuses == {200, 201, 400, 403, 404, 500, 502, 503}

NoResponse == [status_code |-> 0, text |-> ""]

-----------------------------------------------------------------------------
(* Exceptions (src/cubejs/errors.py).  args is the tuple the exception was    *)
(* constructed with: <<message>> for the four errors that take a message,     *)
(* <<>> for the retryable ones.  last_attempt is set by tenacity.RetryError.  *)

NoAttempt == [kind |-> "none", args |-> <<>>]

Exception(kind, args) == [kind |-> kind, args |-> args, last_attempt |-> NoAttempt]

NoException == Exception("none", <<>>)

ServerError(message)             == Exception("ServerError", <<message>>)
AuthorizationError(message)      == Exception("AuthorizationError", <<message>>)
RequestError(message)            == Exception("RequestError", <<message>>)
UnexpectedResponseError(message) == Exception("UnexpectedResponseError", <<message>>)
ContinueWaitError                == Exception("ContinueWaitError", <<>>)
BadGatewayError                  == Exception("BadGatewayError", <<>>)

\* class ContinueWaitError(RetryableError), class BadGatewayError(RetryableError)
RetryableError == {"ContinueWaitError", "BadGatewayError"}

\* the classifier's errors that are not subclasses of RetryableError
NonRetryable == {"AuthorizationError", "RequestError", "ServerError",
                 "UnexpectedResponseError"}

\* failures of an attempt that do not come from the classifier
OtherFailures == {"TransportError", "JSONDecodeError", "ValidationError"}

-----------------------------------------------------------------------------
(* _error_handler: the exception it raises for a response, NoException when   *)
(* it returns normally.                                                       *)

\* mutant: the body check made before the status checks
ErrorHandler_BodyFirst(r) ==
    IF Contains(r.text, ContinueWait) THEN ContinueWaitError
    ELSE IF r.status_code = 403 THEN AuthorizationError(r.text)
    ELSE IF r.status_code = 400 THEN RequestError(r.text)
    ELSE IF r.status_code = 502 THEN BadGatewayError
    ELSE IF r.status_code = 500 THEN ServerError(r.text)
    ELSE IF r.status_code # 200 THEN UnexpectedResponseError(r.text)
    ELSE NoException

\* mutant: the body check made after the 502 and 500 checks
ErrorHandler_StatusFirst(r) ==
    IF r.status_code = 403 THEN AuthorizationError(r.text)
    ELSE IF r.status_code = 400 THEN RequestError(r.text)
    ELSE IF r.status_code = 502 THEN BadGatewayError
    ELSE IF r.status_code = 500 THEN ServerError(r.text)
    ELSE IF Contains(r.text, ContinueWait) THEN ContinueWaitError
    ELSE IF r.status_code # 200 THEN UnexpectedResponseError(r.text)
    ELSE NoException

\* mutant: every 5xx status taken for a server error
ErrorHandler_AnyServerError(r) ==
    IF r.status_code = 403 THEN AuthorizationError(r.text)
    ELSE IF r.status_code = 400 THEN RequestError(r.text)
    ELSE IF Contains(r.text, ContinueWait) THEN ContinueWaitError
    ELSE IF r.status_code >= 500 THEN ServerError(r.text)
    ELSE IF r.status_code # 200 THEN UnexpectedResponseError(r.text)
    ELSE NoException

\* mutant: the errors built from the body with its blanks stripped
ErrorHandler_Stripped(r) ==
    IF r.status_code = 403 THEN AuthorizationError(LStrip(RStrip(r.text)))
    ELSE IF r.status_code = 400 THEN RequestError(LStrip(RStrip(r.text)))
    ELSE IF Contains(r.text, ContinueWait) THEN ContinueWaitError
    ELSE IF r.status_code = 502 THEN BadGatewayError
    ELSE IF r.status_code = 500 THEN ServerError(LStrip(RStrip(r.text)))
    ELSE IF r.status_code # 200 THEN UnexpectedResponseError(LStrip(RStrip(r.text)))
    ELSE NoException

ErrorHandler(r) ==
    IF r.status_code = 403 THEN AuthorizationError(r.text)
    ELSE IF r.status_code = 400 THEN RequestError(r.text)
    ELSE IF Contains(r.text, ContinueWait) THEN ContinueWaitError
    ELSE IF r.status_code = 502 THEN BadGatewayError
    ELSE IF r.status_code = 500 THEN ServerError(r.text)
    ELSE IF r.status_code # 200 THEN UnexpectedResponseError(r.text)
    ELSE NoException

-----------------------------------------------------------------------------
(* response.json() and the construction of CubeJSResponse from it            *)

NotJson == [ok |-> FALSE]

\* a decoded JSON value: its Python type and its literal
JStr(s)   == [t |-> "str", s |-> s]
JInt(s)   == [t |-> "int", s |-> s]
JFloat(s) == [t |-> "float", s |-> s]
JBool(s)  == [t |-> "bool", s |-> s]
JList(s)  == [t |-> "list", s |-> s]
JNone     == [t |-> "NoneType", s |-> "null"]

\* response.json(): the decoded body, for the bodies the model's server sends
ResponseJson(text) ==
    LET t == LStrip(RStrip(text)) IN
    IF t = DataEmpty THEN [ok |-> TRUE, keys |-> {"data"}, data |-> <<>>]
    ELSE IF t = DataOneRow THEN
        [ok |-> TRUE, keys |-> {"data"},
         data |-> << [cols |-> <<"a.b", "a.c">>,
                      vals |-> <<JStr("2023-01-01"), JInt("42")>>] >>]
    ELSE IF t = DataTwoRows THEN
        [ok |-> TRUE, keys |-> {"data"},
         data |-> << [cols |-> <<"s", "n">>, vals |-> <<JStr("completed"), JInt("42")>>],
                     [cols |-> <<"s", "n">>, vals |-> <<JStr("processing"), JInt("13")>>] >>]
    ELSE IF t = DataWait THEN
        [ok |-> TRUE, keys |-> {"data"},
         data |-> << [cols |-> <<"s">>, vals |-> <<JStr("Continue wait")>>] >>]
    ELSE IF t = DataTyped THEN
        [ok |-> TRUE, keys |-> {"data"},
         data |-> << [cols |-> <<"d", "n", "f", "z">>,
                      vals |-> <<JStr("x"), JInt("7"), JFloat("1.5"), JNone>>] >>]
    ELSE IF t = DataBool THEN
        [ok |-> TRUE, keys |-> {"data"},
         data |-> << [cols |-> <<"b">>, vals |-> <<JBool("true")>>] >>]
    ELSE IF t = DataNested THEN
        [ok |-> TRUE, keys |-> {"data"},
         data |-> << [cols |-> <<"a">>, vals |-> <<JList("[1]")>>] >>]
    ELSE IF t \in {ErrorWait, ErrorOther} THEN [ok |-> TRUE, keys |-> {"error"}]
    ELSE NotJson

NoValue == [data |-> << >>, set |-> FALSE]

\* what no member of the union accepts
Invalid == [t |-> "invalid", s |-> ""]

\* mutant: the union tried left to right with numbers coerced to str
RowValue_StrFirst(v) ==
    IF v.t \in {"str", "int", "float"} THEN JStr(v.s)
    ELSE IF v.t = "NoneType" THEN v
    ELSE IF v.t = "bool" THEN JInt(IF v.s = "true" THEN "1" ELSE "0")
    ELSE Invalid

\* pydantic's validation of a value of a row, str | int | float | None: a
\* value of one of the four types is kept as it is, a bool is taken by int
\* (the only member that accepts it), anything else is rejected
RowValue(v) ==
    IF v.t \in {"str", "int", "float", "NoneType"} THEN v
    ELSE IF v.t = "bool" THEN JInt(IF v.s = "true" THEN "1" ELSE "0")
    ELSE Invalid

\* mutant: the parsed response without its last row
CubeJSResponse_DropsRow(json) ==
    [data |-> IF json.data = <<>> THEN <<>>
              ELSE [i \in 1..(Len(json.data) - 1) |->
                      [cols |-> json.data[i].cols,
                       vals |-> [j \in 1..Len(json.data[i].vals) |->
                                   RowValue(json.data[i].vals[j])]]],
     set |-> TRUE]

\* CubeJSResponse(data=...): every row validated as dict[str, str | int | float | None]
CubeJSResponse(json) ==
    [data |-> [i \in 1..Len(json.data) |->
                 [cols |-> json.data[i].cols,
                  vals |-> [j \in 1..Len(json.data[i].vals) |->
                              RowValue(json.data[i].vals[j])]]],
     set |-> TRUE]

\* the exception raised by line 76 (decoding the body, building the response), if any
ParseFailure(text) ==
    LET json == ResponseJson(text) IN
    IF ~json.ok THEN Exception("JSONDecodeError", <<>>)
    ELSE IF "data" \notin json.keys THEN Exception("ValidationError", <<>>)
    ELSE IF \E i \in 1..Len(json.data) : \E j \in 1..Len(json.data[i].vals) :
                RowValue(json.data[i].vals[j]) = Invalid
         THEN Exception("ValidationError", <<>>)
    ELSE NoException

-----------------------------------------------------------------------------
(* The retry policy of the decorator (client.py lines 45-49)                  *)

\* mutant: every exception retried (retry_if_exception_type(Exception))
ShouldRetry_AnyException(e) == e.kind # "none"

\* mutant: transport failures are retried too
ShouldRetry_TransportToo(e) == e.kind \in RetryableError \cup {"TransportError"}

\* retry=tenacity.retry_if_exception_type(RetryableError)
ShouldRetry(e) == e.kind \in RetryableError

\* mutant: the attempt cap compared with > instead of >=
ShouldStop_OffByOne(n) == n > STOP_AFTER_ATTEMPT

\* mutant: the policy gives up one attempt early
ShouldStop_Early(n) == n >= STOP_AFTER_ATTEMPT - 1

\* stop=tenacity.stop_after_attempt(5)
ShouldStop(n) == n >= STOP_AFTER_ATTEMPT

\* mutant: the exponent taken from the attempt number, not from the retry number
WaitExponential_FromAttempt(n) ==
    Max(Max(0, WAIT_MIN), Min(WAIT_MULTIPLIER * Pow(WAIT_EXP_BASE, n), WAIT_MAX))

\* mutant: the wait neither floored at min nor capped at max
WaitExponential_Unclamped(n) == WAIT_MULTIPLIER * Pow(WAIT_EXP_BASE, n - 1)

\* wait=tenacity.wait_exponential(multiplier=2, min=1, max=30), after attempt n:
\* max(max(0, min), min(multiplier * exp_base ** (n - 1), max))
WaitExponential(n) ==
    Max(Max(0, WAIT_MIN), Min(WAIT_MULTIPLIER * Pow(WAIT_EXP_BASE, n - 1), WAIT_MAX))

\* tenacity.RetryError(last_attempt): what the policy raises when it stops,
\* reraise being left at its default False
RetryError(e) ==
    [kind |-> "RetryError", args |-> <<>>,
     last_attempt |-> [kind |-> e.kind, args |-> e.args]]

-----------------------------------------------------------------------------
(* The data model (src/cubejs/model.py).  An optional field holds None or    *)
(* Some(x); a value of type str | list[str] is tagged with its kind.         *)

\* most assignments made to auth and request after their construction
MaxAssignments == 1

\* most measures a request is grown to by appending to its list
MaxMeasures == 2

\* longest compare_date_range the caller passes
MaxEntries == 2
\* deepest nesting of LogicalOperator nodes the caller passes
MaxDepth == 2

None == <<>>
Some(x) == <<x>>

Str(s) == [t |-> "str", s |-> s, l |-> <<>>]
List(l) == [t |-> "list", s |-> "", l |-> l]

\* class Granularity(str, Enum): the values of its members
Granularity == {"year", "quarter", "month", "week", "day", "hour", "minute", "second"}

\* class OrderBy(str, Enum)
OrderBy == {"asc", "desc"}

\* the fields of each model class, in declaration order
Fields(cls) ==
    IF cls = "TimeDimension"
        THEN <<"dimension", "granularity", "date_range", "compare_date_range">>
    ELSE IF cls = "Filter" THEN <<"member", "operator", "values">>
    ELSE IF cls = "LogicalOperator" THEN <<"or_", "and_">>
    ELSE <<"measures", "time_dimensions", "dimensions", "segments", "filters",
           "order", "limit", "offset">>

\* the fields declared `... | None`
Nullable(cls) ==
    IF cls = "TimeDimension" THEN {"granularity", "date_range", "compare_date_range"}
    ELSE IF cls = "Filter" THEN {"values"}
    ELSE IF cls = "LogicalOperator" THEN {"or_", "and_"}
    ELSE {"time_dimensions", "dimensions", "segments", "order", "limit", "offset"}

\* mutant: the field names used on the wire (by_alias left out)
SerializationAlias_ByName(cls, field) == field

\* Field(serialization_alias=...)
SerializationAlias(cls, field) ==
    IF cls = "TimeDimension" /\ field = "date_range" THEN "dateRange"
    ELSE IF cls = "TimeDimension" /\ field = "compare_date_range" THEN "compareDateRange"
    ELSE IF cls = "LogicalOperator" /\ field = "or_" THEN "or"
    ELSE IF cls = "LogicalOperator" /\ field = "and_" THEN "and"
    ELSE IF cls = "CubeJSRequest" /\ field = "time_dimensions" THEN "timeDimensions"
    ELSE field

(* TimeDimension *)

TimeDimension(dimension, granularity, date_range, compare_date_range) ==
    [cls |-> "TimeDimension", dimension |-> dimension, granularity |-> granularity,
     date_range |-> date_range, compare_date_range |-> compare_date_range]

\* pydantic's validation of granularity: Granularity | None
GranularityError(td) ==
    IF td.granularity # None /\ td.granularity[1] \notin Granularity
    THEN "granularity: Input should be 'year', 'quarter', 'month', 'week', 'day', 'hour', 'minute' or 'second'"
    ELSE "none"

\* mutant: the check that both ranges are given is missing
ValidateDateRanges_NoExclusion(td) ==
    IF td.compare_date_range # None
       /\ \E i \in 1..Len(td.compare_date_range[1]) :
             /\ td.compare_date_range[1][i].t = "list"
             /\ Len(td.compare_date_range[1][i].l) # 2
    THEN "Each compare_date_range entry must contain exactly 2 dates when provided"
    ELSE "none"

\* mutant: the length check of the entries is missing
ValidateDateRanges_NoLength(td) ==
    IF td.date_range # None /\ td.compare_date_range # None
    THEN "Cannot provide both date_range and compare_date_range"
    ELSE "none"

\* TimeDimension.validate_date_ranges: the message of the ValueError, or "none"
ValidateDateRanges(td) ==
    IF td.date_range # None /\ td.compare_date_range # None
    THEN "Cannot provide both date_range and compare_date_range"
    ELSE IF td.compare_date_range # None
            /\ \E i \in 1..Len(td.compare_date_range[1]) :
                  /\ td.compare_date_range[1][i].t = "list"
                  /\ Len(td.compare_date_range[1][i].l) # 2
    THEN "Each compare_date_range entry must contain exactly 2 dates when provided"
    ELSE "none"

\* constructing a TimeDimension: the fields are validated, then the
\* mode="after" validator runs
TimeDimensionError(td) ==
    IF GranularityError(td) # "none" THEN GranularityError(td)
    ELSE ValidateDateRanges(td)

(* Filter and LogicalOperator *)

Filter(member, operator, values) ==
    [cls |-> "Filter", member |-> member, operator |-> operator, values |-> values]

LogicalOperator(or_, and_) ==
    [cls |-> "LogicalOperator", or_ |-> or_, and_ |-> and_]

(* CubeJSRequest *)

NoRequest == [cls |-> "none"]

\* the request built from the field values given; a field not given takes its
\* default (default_factory=list for measures and filters, None for the rest)
CubeJSRequest(in) ==
    [cls |-> "CubeJSRequest",
     measures |-> IF in.measures = None THEN <<>> ELSE in.measures[1],
     time_dimensions |-> in.time_dimensions,
     dimensions |-> in.dimensions,
     segments |-> in.segments,
     filters |-> IF in.filters = None THEN <<>> ELSE in.filters[1],
     order |-> in.order,
     limit |-> in.limit,
     offset |-> in.offset]

\* the error of building the request: that of its first invalid time dimension
ConstructionError(in) ==
    IF in.time_dimensions = None THEN "none"
    ELSE LET tds == in.time_dimensions[1]
             bad == {i \in 1..Len(tds) : TimeDimensionError(tds[i]) # "none"}
         IN IF bad = {} THEN "none"
            ELSE TimeDimensionError(tds[CHOOSE i \in bad : \A j \in bad : i <= j])

(* model_dump(by_alias=True, exclude_none=True) *)

\* the fields whose values are lists of models
ModelFields == {"time_dimensions", "filters", "or_", "and_"}

FieldSet(cls) == {Fields(cls)[i] : i \in 1..Len(Fields(cls))}

\* the fields of obj that exclude_none keeps
Present(obj) ==
    {f \in FieldSet(obj.cls) : ~(f \in Nullable(obj.cls) /\ obj[f] = None)}

RECURSIVE ModelDump(_)
ModelDump(obj) ==
    LET cls == obj.cls
        FieldOf(k) == CHOOSE f \in Present(obj) : SerializationAlias(cls, f) = k
        Val(f) == LET v == IF f \in Nullable(cls) THEN obj[f][1] ELSE obj[f]
                  IN IF f \in ModelFields
                     THEN [i \in 1..Len(v) |-> ModelDump(v[i])]
                     ELSE v
    IN [k \in {SerializationAlias(cls, f) : f \in Present(obj)} |-> Val(FieldOf(k))]

\* the key validation reads a field from: no field declares an alias or a
\* validation_alias, so it is the field's name (populate_by_name changes
\* nothing without one), and keys that are no field's name are ignored
ValidationKey(cls, field) == field

\* cls.model_validate(d) for the dump d of a filter entry; the union
\* Filter | LogicalOperator takes Filter when its required fields are there
RECURSIVE ModelValidate(_, _)
ModelValidate(cls, d) ==
    LET Has(c, f) == ValidationKey(c, f) \in DOMAIN d
        Get(c, f) == d[ValidationKey(c, f)]
        Entries(f) ==
            IF Has("LogicalOperator", f)
            THEN Some([i \in 1..Len(Get("LogicalOperator", f)) |->
                          ModelValidate("FilterOrLogical", Get("LogicalOperator", f)[i])])
            ELSE None
    IN IF cls = "Filter"
          \/ (cls = "FilterOrLogical" /\ Has("Filter", "member") /\ Has("Filter", "operator"))
       THEN Filter(Get("Filter", "member"), Get("Filter", "operator"),
                   IF Has("Filter", "values") THEN Some(Get("Filter", "values")) ELSE None)
       ELSE LogicalOperator(Entries("or_"), Entries("and_"))

NoPayload == [set |-> FALSE]

\* line 71: request_payload
RequestPayload(req) == [set |-> TRUE, query |-> ModelDump(req)]

\* BaseModel.__setattr__: no model sets validate_assignment or frozen, so the
\* value is stored and no validator runs
SetAttr(obj, field, v) == [obj EXCEPT ![field] = v]

\* the request whose first time dimension has had a field assigned: the
\* request holds the TimeDimension object itself, not a copy
SetTimeDimensionAttr(req, field, v) ==
    SetAttr(req, "time_dimensions",
            Some([req.time_dimensions[1] EXCEPT ![1] = SetAttr(@, field, v)]))

(* The values the caller builds requests from *)

D1 == "2023-01-01"
D2 == "2023-03-31"
D3 == "2023-06-30"

\* entries of compare_date_range: a phrase, a pair, and lists of other lengths
RangeEntries == {Str("last quarter"), List(<<D1, D2>>), List(<<D1>>), List(<<D1, D2, D3>>)}

RECURSIVE SeqsUpTo(_, _)
SeqsUpTo(S, n) ==
    IF n = 0 THEN {<<>>}
    ELSE LET shorter == SeqsUpTo(S, n - 1)
         IN shorter \cup {Append(q, x) : q \in {r \in shorter : Len(r) = n - 1}, x \in S}

TimeDimensionInputs ==
    {TimeDimension("orders.created_at", g, dr, cdr) :
        g \in {None, Some("day"), Some("fiscal_year")},
        dr \in {None, Some(Str("last week")), Some(List(<<D1, D2>>))},
        cdr \in {None} \cup {Some(q) : q \in SeqsUpTo(RangeEntries, MaxEntries)}}

F1 == Filter("orders.status", "equals", Some(<<"completed", "processing">>))
F2 == Filter("products.description", "set", None)
F3 == Filter("products.price", "gt", Some(<<"100">>))

\* a LogicalOperator nested d levels deep, OR and AND alternating
RECURSIVE Nested(_)
Nested(d) ==
    IF d = 0 THEN F3
    ELSE IF d % 2 = 1 THEN LogicalOperator(None, Some(<<F3, Nested(d - 1)>>))
    ELSE LogicalOperator(Some(<<F1, Nested(d - 1)>>), None)

FilterInputs ==
    {None, Some(<<>>), Some(<<F2>>), Some(<<LogicalOperator(None, None)>>)}
    \cup {Some(<<Nested(d)>>) : d \in 1..MaxDepth}
    \cup {Some(<<F1, Nested(MaxDepth)>>)}

\* which of the other fields the caller gives
\* what the caller assigns to a range field of a time dimension it has built
RangeAssignments ==
    { <<"date_range", Some(List(<<D1, D2>>))>>,
      <<"compare_date_range", Some(<<List(<<D1>>)>>)>>,
      <<"compare_date_range", None>> }

FieldChoices ==
    { {}, {"measures"}, {"limit", "offset"}, {"measures", "dimensions", "limit"},
      {"segments", "order", "offset"},
      {"measures", "dimensions", "segments", "order", "limit", "offset"} }

RequestInputs ==
    {[cls |-> "input",
      measures |-> IF "measures" \in c THEN Some(<<"orders.count">>) ELSE None,
      time_dimensions |-> tds,
      dimensions |-> IF "dimensions" \in c THEN Some(<<"orders.status">>) ELSE None,
      segments |-> IF "segments" \in c THEN Some(<<"orders.paid">>) ELSE None,
      filters |-> fs,
      order |-> IF "order" \in c THEN Some(<< <<"orders.count", "desc">> >>) ELSE None,
      limit |-> IF "limit" \in c THEN Some(100) ELSE None,
      offset |-> IF "offset" \in c THEN Some(0) ELSE None] :
        c \in FieldChoices,
        tds \in {None} \cup {Some(<<td>>) : td \in TimeDimensionInputs},
        fs \in FilterInputs}

NoInput == [cls |-> "none"]

-----------------------------------------------------------------------------
(* Calls running concurrently: each call has its own copy of the retrying    *)
(* object, its own RetryCallState and its own httpx.AsyncClient              *)

\* the two calls
Calls == {1, 2}

\* the statistics dictionary of the retrying object before any call: empty
NoStatistics == <<>>

\* a call that has not started
NewCall ==
    [pc |-> "start", attempt_number |-> 1, posts |-> 0, waits |-> <<>>,
     seen |-> <<>>, result |-> NoValue, raised |-> NoException]

\* the awaited POST failed: no response
TransportFailure == [status_code |-> -1, text |-> "ConnectTimeout"]

\* what the server answers to the concurrent calls
TwoResponses ==
    { [status_code |-> 200, text |-> DataOneRow],
      [status_code |-> 200, text |-> ErrorWait],
      [status_code |-> 502, text |-> "Bad Gateway"],
      [status_code |-> 500, text |-> "x"],
      TransportFailure }

\* lines 74-76 for one attempt: the exception it raises, or NoException
AttemptException(r) ==
    IF r = TransportFailure THEN Exception("TransportError", <<>>)
    ELSE IF ErrorHandler(r) # NoException THEN ErrorHandler(r)
    ELSE ParseFailure(r.text)

\* mutant: the attempt number read from the statistics of the retrying
\* object, which all calls write
AttemptNumber_FromStatistics(c) == statistics.attempt_number

\* retry_state.attempt_number of the call's own RetryCallState
AttemptNumber(c) == calls[c].attempt_number

-----------------------------------------------------------------------------
(* The HTTP request of an attempt (client.py lines 68-74) *)

CubeJSAuth(token, host) == [cls |-> "CubeJSAuth", token |-> token, host |-> host]

\* what the caller of the single call passes
TheAuth == CubeJSAuth("token", "https://host")

TheInput ==
    [cls |-> "input", measures |-> Some(<<"orders.count">>), time_dimensions |-> None,
     dimensions |-> None, segments |-> None, filters |-> None, order |-> None,
     limit |-> None, offset |-> None]

\* line 69: url
Url(a) == a.host \o "/cubejs-api/v1/load"

\* mutant: the token sent as a bearer token
Headers_Bearer(a) == [Authorization |-> "Bearer " \o a.token]

\* line 70: headers
Headers(a) == [Authorization |-> a.token]

\* lines 69-74: client.post(url=url, json=request_payload, headers=headers)
HttpPost(a, req) ==
    [method |-> "POST", url |-> Url(a), headers |-> Headers(a),
     json |-> [query |-> ModelDump(req)], timeout |-> CLIENT_TIMEOUT]

-----------------------------------------------------------------------------
(* One call of get_measures *)

Init ==
    /\ pc = "attempt"
    /\ attempt_number = 1
    /\ posts = 0
    /\ client_open = FALSE
    /\ clients_opened = 0
    /\ clients_closed = 0
    /\ response = NoResponse
    /\ exc = NoException
    /\ value = NoValue
    /\ log = <<>>
    /\ waits = <<>>
    /\ raised = NoException
    /\ result = NoValue
    /\ wire = <<>>
    /\ dripping = FALSE
    /\ mpc = "called"
    /\ auth = TheAuth
    /\ req_in = TheInput
    /\ request = CubeJSRequest(TheInput)
    /\ verror = "none"
    /\ payload = NoPayload
    /\ read_back = None
    /\ assignments = 0
    /\ calls = [c \in Calls |-> NewCall]
    /\ statistics = NoStatistics

\* mutant: the next attempt does not wait for the backoff sleep to elapse
Post_WhileSleeping ==
    /\ pc \in {"attempt", "sleeping"}
    /\ pc' = "awaiting"
    /\ posts' = posts + 1
    /\ client_open' = TRUE
    /\ clients_opened' = clients_opened + 1
    /\ response' = NoResponse
    /\ exc' = NoException
    /\ value' = NoValue
    /\ wire' = Append(wire, HttpPost(auth, request))
    /\ UNCHANGED <<attempt_number, clients_closed, log, waits, raised, result>>

\* lines 68-74: the attempt opens its client and issues the POST
Post ==
    /\ pc = "attempt"
    /\ pc' = "awaiting"
    /\ posts' = posts + 1
    /\ client_open' = TRUE
    /\ clients_opened' = clients_opened + 1
    /\ response' = NoResponse
    /\ exc' = NoException
    /\ value' = NoValue
    /\ wire' = Append(wire, HttpPost(auth, request))
    /\ UNCHANGED <<attempt_number, clients_closed, log, waits, raised, result>>

\* line 74: the awaited POST yields a response
Receive(status, text) ==
    /\ pc = "awaiting"
    /\ response' = [status_code |-> status, text |-> text]
    /\ pc' = "classify"
    /\ dripping' = FALSE
    /\ UNCHANGED <<attempt_number, posts, client_open, clients_opened,
                   clients_closed, exc, value, log, waits, raised, result, wire>>

\* line 74: the awaited POST fails (timeout, connection error); the exception
\* leaves the async with block, which closes the client
TransportFails ==
    /\ pc = "awaiting"
    /\ exc' = Exception("TransportError", <<>>)
    /\ dripping' = FALSE
    /\ client_open' = FALSE
    /\ clients_closed' = clients_closed + 1
    /\ log' = Append(log, "TransportError")
    /\ pc' = "decide"
    /\ UNCHANGED <<attempt_number, posts, clients_opened, response, value, waits,
                   raised, result, wire>>

\* line 74: a piece of the answer arrives while the POST is awaited.  The
\* timeout=60 of line 73 is the limit of one socket operation, so the wait for
\* the next piece starts again and the POST goes on being awaited: from here
\* on the timeout alone does not end the attempt, the peer has to
Drip ==
    /\ pc = "awaiting"
    /\ ~dripping
    /\ dripping' = TRUE
    /\ UNCHANGED callVars

\* mutant: the client is closed by hand after the classifier, so an error of
\* the classifier leaves it open
Classify_LeaksOnError ==
    /\ pc = "classify"
    /\ LET e == ErrorHandler(response) IN
        /\ exc' = e
        /\ IF e = NoException
           THEN /\ pc' = "parse" /\ log' = log
                /\ client_open' = FALSE
                /\ clients_closed' = clients_closed + 1
           ELSE /\ pc' = "decide" /\ log' = Append(log, e.kind)
                /\ UNCHANGED <<client_open, clients_closed>>
    /\ UNCHANGED <<attempt_number, posts, clients_opened, response, value, waits,
                   raised, result, wire>>

\* line 75 and the end of the async with block, which closes the client
\* whether or not the classifier raised
Classify ==
    /\ pc = "classify"
    /\ LET e == ErrorHandler(response) IN
        /\ exc' = e
        /\ IF e = NoException
           THEN pc' = "parse" /\ log' = log
           ELSE pc' = "decide" /\ log' = Append(log, e.kind)
    /\ client_open' = FALSE
    /\ clients_closed' = clients_closed + 1
    /\ UNCHANGED <<attempt_number, posts, clients_opened, response, value, waits,
                   raised, result, wire>>

\* lines 76-78
Parse ==
    /\ pc = "parse"
    /\ LET e == ParseFailure(response.text) IN
        IF e = NoException
        THEN /\ value' = CubeJSResponse(ResponseJson(response.text))
             /\ exc' = exc
             /\ log' = Append(log, "ok")
        ELSE /\ exc' = e
             /\ value' = value
             /\ log' = Append(log, e.kind)
    /\ pc' = "decide"
    /\ UNCHANGED <<attempt_number, posts, client_open, clients_opened,
                   clients_closed, response, waits, raised, result, wire>>

\* tenacity's decision on the outcome of the attempt
Decide ==
    /\ pc = "decide"
    /\ IF exc = NoException
       THEN /\ result' = value
            /\ pc' = "returned"
            /\ UNCHANGED <<attempt_number, waits, raised>>
       ELSE IF ~ShouldRetry(exc)
       THEN /\ raised' = exc
            /\ pc' = "raised"
            /\ UNCHANGED <<attempt_number, waits, result>>
       ELSE IF ShouldStop(attempt_number)
       THEN /\ raised' = RetryError(exc)
            /\ pc' = "raised"
            /\ UNCHANGED <<attempt_number, waits, result>>
       ELSE /\ waits' = Append(waits, WaitExponential(attempt_number))
            /\ attempt_number' = attempt_number + 1
            /\ pc' = "sleeping"
            /\ UNCHANGED <<raised, result>>
    /\ UNCHANGED <<posts, client_open, clients_opened, clients_closed, response,
                   exc, value, log, wire>>

\* mutant: the backoff sleep never elapses
Wake_Lost ==
    /\ pc = "sleeping"
    /\ pc' = "sleeping"
    /\ UNCHANGED <<attempt_number, posts, client_open, clients_opened,
                   clients_closed, response, exc, value, log, waits, raised, result,
                   wire>>

\* the backoff sleep elapses
Wake ==
    /\ pc = "sleeping"
    /\ pc' = "attempt"
    /\ UNCHANGED <<attempt_number, posts, client_open, clients_opened,
                   clients_closed, response, exc, value, log, waits, raised, result,
                   wire>>

Next ==
    \/ Post /\ UNCHANGED <<modelVars, twoVars, peerVars>>
    \/ (\E status \in Statuses, text \in Texts : Receive(status, text)) /\ UNCHANGED <<modelVars, twoVars>>
    \/ TransportFails /\ UNCHANGED <<modelVars, twoVars>>
    \/ Drip /\ UNCHANGED <<modelVars, twoVars>>
    \/ Classify /\ UNCHANGED <<modelVars, twoVars, peerVars>>
    \/ Parse /\ UNCHANGED <<modelVars, twoVars, peerVars>>
    \/ Decide /\ UNCHANGED <<modelVars, twoVars, peerVars>>
    \/ Wake /\ UNCHANGED <<modelVars, twoVars, peerVars>>

Spec == Init /\ [][Next]_vars

\* the steps of the coroutine between its awaits
Step ==
    (Post \/ Classify \/ Parse \/ Decide) /\ UNCHANGED <<modelVars, twoVars, peerVars>>

\* the awaited POST ends: an answer, or a transport failure
Answered ==
    /\ \/ \E status \in Statuses, text \in Texts : Receive(status, text)
       \/ TransportFails
    /\ UNCHANGED <<modelVars, twoVars>>

\* what the event loop, the timer and the client's timeout provide: the
\* coroutine takes its next step, every backoff sleep elapses, and a POST
\* whose peer stays silent ends (httpx raises ReadTimeout after timeout=60
\* without a byte).  That a POST whose peer keeps sending pieces ends too is
\* not provided by the code: it is the proviso EveryAttemptEnds of C19
Fairness ==
    /\ WF_vars(Step)
    /\ WF_vars(Wake /\ UNCHANGED <<modelVars, twoVars, peerVars>>)
    /\ WF_vars(~dripping /\ Answered)

SpecFair == Spec /\ Fairness

-----------------------------------------------------------------------------
(* Vocabulary of the properties *)

\* the response of the current attempt has been through _error_handler
Classified == response # NoResponse /\ pc # "classify"

HasWait == Contains(response.text, ContinueWait)

LastLog == log[Len(log)]

\* outcomes of an attempt that got past _error_handler
\* the body decodes to {"data": rows} with rows of the Response type: every
\* value a string, an integer, a float or null
RowsBody(text) ==
    LET json == ResponseJson(text) IN
    /\ json.ok
    /\ "data" \in json.keys
    /\ \A i \in 1..Len(json.data) : \A j \in 1..Len(json.data[i].vals) :
          json.data[i].vals[j].t \in {"str", "int", "float", "NoneType"}

PastClassifier == {"ok", "JSONDecodeError", "ValidationError"}

-----------------------------------------------------------------------------
(* C1: for status 403 and status 400 the classifier raises AuthorizationError *)
(* and RequestError whatever the body, also when the body contains "Continue  *)
(* wait"; the call then neither sleeps nor attempts again, and the error that *)
(* reaches the caller is of that kind.                                        *)
C1_StatusBeforeBody ==
    (Classified /\ response.status_code \in {403, 400}) =>
        /\ exc.kind = (IF response.status_code = 403 THEN "AuthorizationError"
                                                     ELSE "RequestError")
        /\ LastLog = exc.kind
        /\ pc \in {"decide", "raised"}
        /\ (pc = "raised" => raised.kind = exc.kind /\ posts = Len(log))

C1_Witness ==
    /\ pc = "raised"
    /\ response.status_code = 403
    /\ HasWait
    /\ raised.kind = "AuthorizationError"
    /\ posts = 2

(* C2: for every status other than 403 and 400, a body containing "Continue   *)
(* wait" is classified as ContinueWaitError: the attempt is never parsed as a *)
(* success payload and never raises ServerError, BadGatewayError or           *)
(* UnexpectedResponseError; it is retried while attempts remain.              *)
C2_BodyBeforeOtherStatuses ==
    (Classified /\ response.status_code \notin {403, 400} /\ HasWait) =>
        /\ exc = ContinueWaitError
        /\ LastLog = "ContinueWaitError"
        /\ pc \in {"decide", "sleeping", "attempt", "raised"}
        /\ value = NoValue /\ result = NoValue
        /\ (pc \in {"sleeping", "attempt"} => attempt_number = Len(log) + 1)
        /\ (pc = "raised" => Len(log) = 5)

C2_Witness ==
    /\ pc = "sleeping"
    /\ response.status_code = 500
    /\ HasWait
    /\ exc = ContinueWaitError

(* C3: for a body without "Continue wait" the classifier goes by the status   *)
(* alone: 502 BadGatewayError, 500 ServerError, 200 nothing (the body goes on *)
(* to be parsed), any status other than 200, 400, 403, 500, 502               *)
(* UnexpectedResponseError; and every response has exactly one of the seven   *)
(* outcomes (six errors, or success of the classifier).                       *)
C3_ByStatusAlone ==
    Classified =>
        /\ (~HasWait =>
              /\ (response.status_code = 502 => exc = BadGatewayError)
              /\ (response.status_code = 500 => exc.kind = "ServerError")
              /\ (response.status_code \notin {200, 400, 403, 500, 502}
                      => exc.kind = "UnexpectedResponseError")
              /\ (response.status_code = 200
                      => /\ exc.kind \notin (RetryableError \cup NonRetryable)
                         /\ (pc = "parse" \/ LastLog \in PastClassifier)))
        /\ \/ exc.kind \in (RetryableError \cup NonRetryable)
              /\ LastLog = exc.kind
              /\ pc # "parse"
           \/ exc.kind \notin (RetryableError \cup NonRetryable)
              /\ response.status_code = 200
              /\ ~HasWait
              /\ (pc = "parse" \/ LastLog \in PastClassifier)

C3_Witness ==
    /\ pc = "decide"
    /\ response.status_code = 503
    /\ response.text = "Bad Gateway"
    /\ exc.kind = "UnexpectedResponseError"

(* C4 (as claimed): when all 5 attempts raise a retryable condition, the      *)
(* error that reaches the caller is the 5th attempt's own error, of kind      *)
(* BadGatewayError or ContinueWaitError, after exactly 5 POSTs.               *)
C4_LastErrorReraised ==
    (pc = "raised" /\ Len(log) = 5 /\ \A i \in 1..5 : log[i] \in RetryableError) =>
        /\ raised = exc
        /\ raised.kind \in RetryableError
        /\ raised.kind = log[5]
        /\ posts = 5

(* C5: a non-retryable classifier error at attempt k reaches the caller as    *)
(* it is, after exactly k POSTs and k-1 waits: no wait and no attempt follow. *)
C5_NonRetryablePropagates ==
    (Len(log) > 0 /\ LastLog \in NonRetryable) =>
        /\ pc \in {"decide", "raised"}
        /\ posts = Len(log)
        /\ attempt_number = Len(log)
        /\ Len(waits) = Len(log) - 1
        /\ exc.kind = LastLog
        /\ (pc = "raised" => raised = exc)

C5_Witness ==
    /\ pc = "raised"
    /\ raised.kind = "ServerError"
    /\ posts = 3
    /\ Len(waits) = 2

(* C6: a call never makes more than 5 POSTs; every attempt, whichever         *)
(* retryable error it ends with, advances the one attempt counter.            *)
C6_AtMostFiveAttempts ==
    /\ posts <= 5
    /\ attempt_number <= 5
    /\ Len(log) <= posts
    /\ posts \in {attempt_number - 1, attempt_number}
    /\ (pc \in {"awaiting", "classify", "parse", "decide", "returned", "raised"}
            => posts = attempt_number)

C6_Witness ==
    /\ pc = "raised"
    /\ posts = 5
    /\ \E i, j \in 1..5 : log[i] = "ContinueWaitError" /\ log[j] = "BadGatewayError"

(* C7: when k retryable failures (k in 0..4) are followed by a status 200     *)
(* with a valid body without "Continue wait", the call returns the response   *)
(* parsed from that body after exactly k+1 POSTs.                             *)
C7_SuccessAfterRetries ==
    /\ (Len(log) > 0 /\ LastLog = "ok") =>
          /\ \A i \in 1..(Len(log) - 1) : log[i] \in RetryableError
          /\ Len(log) \in 1..5
          /\ posts = Len(log)
          /\ pc \in {"decide", "returned"}
          /\ response.status_code = 200
          /\ value.set
          /\ ResponseJson(response.text).ok
          /\ (RowsBody(response.text) => value.data = ResponseJson(response.text).data)
          /\ (pc = "returned" => result = value)
    /\ (/\ Classified /\ pc # "parse"
        /\ response.status_code = 200 /\ ~HasWait
        /\ RowsBody(response.text)) => LastLog = "ok"
    /\ (pc = "returned" => Len(log) > 0 /\ LastLog = "ok")

C7_Witness ==
    /\ pc = "returned"
    /\ posts = 5
    /\ Len(result.data) = 2
    /\ \E i, j \in 1..4 : log[i] = "ContinueWaitError" /\ log[j] = "BadGatewayError"

\* the backoff schedule follows the doubling-with-cap rule from attempt 1 on
DoublesUpTo30 ==
    /\ \A i \in 1..(Len(waits) - 1) : waits[i + 1] = Min(2 * waits[i], 30)
    /\ \A n \in 1..MaxSchedule : WaitExponential(n + 1) = Min(2 * WaitExponential(n), 30)
    /\ \A i \in 1..Len(waits) : waits[i] = WaitExponential(i)

(* C8 (as claimed): the wait before the first retry is 1 second, each later   *)
(* wait is twice the previous one, and no wait exceeds 30 seconds.            *)
C8_StartsAtOne ==
    /\ (Len(waits) > 0 => waits[1] = 1)
    /\ DoublesUpTo30

(* C8 (amended): the wait before the first retry is 2 seconds, each later     *)
(* wait is twice the previous one, and a wait that would exceed 30 seconds is *)
(* 30 seconds.                                                                *)
C8_StartsAtTwo ==
    /\ (Len(waits) > 0 => waits[1] = 2)
    /\ WaitExponential(1) = 2
    /\ DoublesUpTo30

C8_Witness ==
    /\ pc = "sleeping"
    /\ waits = <<2, 4, 8, 16>>

(* C9: every wait of a call is at least 1 and at most 30 seconds, and the     *)
(* waits are non-decreasing in the attempt number.                            *)
C9_WaitsBoundedMonotone ==
    /\ \A i \in 1..Len(waits) : 1 <= waits[i] /\ waits[i] <= 30
    /\ \A i \in 1..(Len(waits) - 1) : waits[i] <= waits[i + 1]
    /\ \A n \in 1..MaxSchedule :
          /\ 1 <= WaitExponential(n) /\ WaitExponential(n) <= 30
          /\ WaitExponential(n) <= WaitExponential(n + 1)

C9_Witness ==
    /\ pc = "attempt"
    /\ Len(waits) = 4
    /\ waits[1] < waits[4]

(* C10: a non-retryable classifier error carries the response body text,      *)
(* unchanged, as its message, for every body; status 400 raises RequestError  *)
(* whose message is exactly the body.                                         *)
C10_MessageIsBody ==
    (Classified /\ exc.kind \in NonRetryable) =>
        /\ exc.args = <<response.text>>
        /\ (response.status_code = 400 => exc = RequestError(response.text))
        /\ (pc = "raised" => raised.kind = exc.kind /\ raised.args = <<response.text>>)

C10_Witness ==
    /\ pc = "raised"
    /\ response.status_code = 400
    /\ response.text = " x "
    /\ raised = RequestError(" x ")

-----------------------------------------------------------------------------
(* The per-call state machine of the retry policy *)

\* the policy's state: Pending until the call returns or raises
PolicyState ==
    IF pc = "returned" THEN "Success"
    ELSE IF pc = "raised" /\ LastLog \in RetryableError THEN "Failed-Exhausted"
    ELSE IF pc = "raised" THEN "Failed-NonRetryable"
    ELSE "Pending"

\* one transition of the policy's state machine, as the claim allows it
PolicyStep ==
    /\ (PolicyState # "Pending" =>
            /\ PolicyState' = PolicyState
            /\ posts' = posts /\ attempt_number' = attempt_number /\ log' = log)
    /\ (PolicyState' # "Pending" => pc = "decide" \/ PolicyState' = PolicyState)
    /\ (attempt_number' # attempt_number =>
            /\ PolicyState = "Pending" /\ PolicyState' = "Pending"
            /\ LastLog \in RetryableError
            /\ attempt_number < 5
            /\ attempt_number' = attempt_number + 1)
    /\ ((pc = "decide" /\ PolicyState' = "Pending" /\ pc' # pc) =>
            /\ LastLog \in RetryableError
            /\ attempt_number < 5
            /\ attempt_number' = attempt_number + 1)
    /\ ((PolicyState = "Pending" /\ PolicyState' = "Failed-Exhausted") =>
            LastLog \in RetryableError /\ attempt_number = 5 /\ posts = 5)
    /\ ((PolicyState = "Pending" /\ PolicyState' = "Failed-NonRetryable") =>
            LastLog \notin RetryableError /\ LastLog # "ok")
    /\ ((PolicyState = "Pending" /\ PolicyState' = "Success") => LastLog = "ok")
    /\ (posts' # posts => PolicyState = "Pending" /\ posts' = posts + 1)

(* C11: per call the policy is the state machine Pending -> {Success,         *)
(* Failed-NonRetryable, Failed-Exhausted}: only Pending is left, another      *)
(* attempt follows only a retryable failure while the attempt count is below  *)
(* 5, Failed-Exhausted is entered only on a retryable failure at attempt 5,   *)
(* and no attempt is made once a terminal state is reached.                   *)
C11_PolicyStateMachine == [][PolicyStep]_vars

C11_Witness ==
    /\ PolicyState = "Failed-Exhausted"
    /\ posts = 5
    /\ Len(waits) = 4

-----------------------------------------------------------------------------
(* The rows returned *)

(* C15: when an attempt receives status 200 with a body {"data": rows} that   *)
(* does not contain "Continue wait", get_measures returns a CubeJSResponse    *)
(* whose data equals rows: the same rows in the same order, with the same     *)
(* column names and the same values, no row added, dropped or altered.        *)
C15_DataEqualsRows ==
    (/\ Classified /\ pc \in {"decide", "returned"}
     /\ response.status_code = 200 /\ ~HasWait
     /\ RowsBody(response.text)) =>
        LET rows == ResponseJson(response.text).data IN
        /\ value.set
        /\ Len(value.data) = Len(rows)
        /\ \A i \in 1..Len(rows) :
              /\ value.data[i].cols = rows[i].cols
              /\ Len(value.data[i].vals) = Len(rows[i].vals)
              /\ \A j \in 1..Len(rows[i].vals) : value.data[i].vals[j] = rows[i].vals[j]
        /\ (pc = "returned" => result = value)
        /\ (pc = "returned" /\ LStrip(RStrip(response.text)) = DataOneRow) =>
              result.data = << [cols |-> <<"a.b", "a.c">>,
                                vals |-> <<JStr("2023-01-01"), JInt("42")>>] >>

\* a row holding a string, an integer, a float and a null has been returned
C15_Witness ==
    /\ pc = "returned"
    /\ LStrip(RStrip(response.text)) = DataTyped
    /\ Len(result.data) = 1
    /\ result.data[1].cols = <<"d", "n", "f", "z">>
    /\ result.data[1].vals = <<JStr("x"), JInt("7"), JFloat("1.5"), JNone>>

-----------------------------------------------------------------------------
(* The order of the attempts *)

\* the POSTs whose await has completed, with a response or with a failure
Completed == Len(log) + (IF pc \in {"classify", "parse"} THEN 1 ELSE 0)

\* the POSTs issued and not yet completed
InFlight == posts - Completed

\* a step that issues a POST
StartsAttempt == posts' # posts

(* C18: within one get_measures call attempts are strictly sequential: at     *)
(* most one POST is in flight at any time, and attempt k+1 starts only after  *)
(* attempt k has been classified as a retryable failure and the backoff wait  *)
(* following it has elapsed.                                                  *)
C18_AttemptsSequential ==
    /\ [](InFlight \in {0, 1} /\ (InFlight = 1 <=> pc = "awaiting"))
    /\ [][StartsAttempt =>
            /\ posts' = posts + 1
            /\ InFlight = 0 /\ InFlight' = 1
            /\ pc = "attempt"
            /\ Len(log) = posts
            /\ Len(waits) = posts
            /\ attempt_number = posts + 1
            /\ posts > 0 => LastLog \in RetryableError]_vars

\* the third attempt is in flight after two retryable failures and two waits
C18_Witness ==
    /\ pc = "awaiting"
    /\ posts = 3
    /\ InFlight = 1
    /\ Len(log) = 2
    /\ waits = <<2, 4>>

-----------------------------------------------------------------------------
(* Termination *)

Terminal == pc \in {"returned", "raised"}

\* the proviso of the claim: every network attempt eventually yields a
\* response or a transport failure
EveryAttemptEnds == [](pc = "awaiting" => <>(pc # "awaiting"))

(* C19: every get_measures call eventually reaches a terminal state, a        *)
(* returned response or a raised error, and stays there, under every sequence *)
(* of server responses, provided each network attempt eventually yields a     *)
(* response or a transport failure and each backoff wait eventually elapses   *)
(* (the fairness of SpecFair).                                                *)
C19_EventuallyTerminal == EveryAttemptEnds => <>[]Terminal

\* the call has returned on its fourth attempt, after three waits
C19_Witness ==
    /\ pc = "returned"
    /\ posts = 4
    /\ waits = <<2, 4, 8>>
    /\ result.set

-----------------------------------------------------------------------------
(* Failures that are not classifier errors *)

(* C20: a failure of an attempt that is not a classifier error (a transport   *)
(* timeout or connection failure, or a status-200 body that cannot be parsed  *)
(* into a CubeJSResponse) is not retried: it ends the get_measures call after *)
(* that attempt and reaches the caller, whatever the attempt number.          *)
C20_OtherFailuresEndTheCall ==
    /\ []((Len(log) > 0 /\ LastLog \in OtherFailures) =>
            /\ pc \in {"decide", "raised"}
            /\ posts = Len(log)
            /\ Len(waits) = posts - 1
            /\ exc.kind = LastLog
            /\ \A i \in 1..(Len(log) - 1) : log[i] \in RetryableError
            /\ (pc = "raised" => raised = exc))
    /\ []((Len(log) > 0 /\ LastLog \in {"JSONDecodeError", "ValidationError"}) =>
            (response.status_code = 200 /\ ~HasWait /\ ~RowsBody(response.text)))
    /\ [][(pc = "decide" /\ LastLog \in OtherFailures) =>
            (pc' = "raised" /\ raised' = exc /\ posts' = posts /\ waits' = waits)]_vars

\* a transport failure of the third attempt has reached the caller
C20_Witness ==
    /\ pc = "raised"
    /\ raised = Exception("TransportError", <<>>)
    /\ posts = 3
    /\ waits = <<2, 4>>

-----------------------------------------------------------------------------
(* The HTTP client of an attempt *)

\* the clients of the call that are open
OpenClients == clients_opened - clients_closed

(* C21: each attempt of get_measures opens its own HTTP client and closes it  *)
(* before the attempt's outcome, success or any raised error, reaches the     *)
(* retry policy: no client is open while the call waits in backoff or after   *)
(* the call has reached a terminal state, and the number of open clients per  *)
(* call never exceeds 1.                                                      *)
C21_ClientClosedBeforeOutcome ==
    /\ [](/\ OpenClients \in {0, 1}
          /\ (client_open <=> OpenClients = 1)
          /\ clients_opened = posts
          /\ (pc \in {"parse", "decide", "sleeping", "returned", "raised"} =>
                (OpenClients = 0 /\ clients_closed = posts))
          /\ (pc \in {"awaiting", "classify"} => OpenClients = 1))
    /\ [][posts' # posts =>
            (OpenClients = 0 /\ clients_opened' = clients_opened + 1
             /\ clients_closed' = clients_closed)]_vars

\* the call sleeps after its third attempt with all three clients closed
C21_Witness ==
    /\ pc = "sleeping"
    /\ clients_opened = 3
    /\ clients_closed = 3
    /\ ~client_open
    /\ LastLog = "BadGatewayError"

-----------------------------------------------------------------------------
(* The caller builds a request and calls get_measures with it *)

InitModel ==
    /\ pc = "attempt"
    /\ attempt_number = 1
    /\ posts = 0
    /\ client_open = FALSE
    /\ clients_opened = 0
    /\ clients_closed = 0
    /\ response = NoResponse
    /\ exc = NoException
    /\ value = NoValue
    /\ log = <<>>
    /\ waits = <<>>
    /\ raised = NoException
    /\ result = NoValue
    /\ wire = <<>>
    /\ dripping = FALSE
    /\ mpc = "new"
    /\ auth = TheAuth
    /\ req_in \in RequestInputs
    /\ request = NoRequest
    /\ verror = "none"
    /\ payload = NoPayload
    /\ read_back = None
    /\ assignments = 0
    /\ calls = [c \in Calls |-> NewCall]
    /\ statistics = NoStatistics

\* the caller constructs the time dimensions, the filters and the request;
\* pydantic validates at construction
Construct ==
    /\ mpc = "new"
    /\ LET e == ConstructionError(req_in) IN
        /\ verror' = e
        /\ IF e = "none"
           THEN mpc' = "built" /\ request' = CubeJSRequest(req_in)
           ELSE mpc' = "invalid" /\ request' = NoRequest
    /\ UNCHANGED <<auth, req_in, payload, read_back, assignments>>
    /\ UNCHANGED <<callVars, twoVars, peerVars>>

\* the caller assigns to a range field of the time dimension of the request
\* it has built, before the call.  The classes allow it; the lifecycle of the
\* data model does not include it, and the request is no longer AsConstructed
Assign ==
    /\ mpc = "built"
    /\ assignments < MaxAssignments
    /\ assignments' = assignments + 1
    /\ request.time_dimensions # None
    /\ \E a \in RangeAssignments :
          request' = SetTimeDimensionAttr(request, a[1], a[2])
    /\ UNCHANGED <<mpc, auth, req_in, verror, payload, read_back>>
    /\ UNCHANGED <<callVars, twoVars, peerVars>>

\* get_measures(auth, request), lines 68-74: the payload is built and POSTed
Send ==
    /\ mpc = "built"
    /\ payload' = RequestPayload(request)
    /\ mpc' = "sent"
    /\ UNCHANGED <<auth, req_in, request, verror, read_back, assignments>>
    /\ UNCHANGED <<twoVars, peerVars>>
    /\ Post

\* the filters of the payload are read back: each entry validated as
\* Filter | LogicalOperator
ReadBack ==
    /\ mpc = "sent"
    /\ read_back' = Some([i \in 1..Len(payload.query.filters) |->
                            ModelValidate("FilterOrLogical", payload.query.filters[i])])
    /\ mpc' = "read"
    /\ UNCHANGED <<auth, req_in, request, verror, payload, assignments>>
    /\ UNCHANGED <<callVars, twoVars, peerVars>>

NextModel ==
    \/ Construct
    \/ Assign
    \/ Send
    \/ ReadBack

SpecModel == InitModel /\ [][NextModel]_vars

\* the time dimension the caller passed, when it passed exactly one
TheTimeDimension == req_in.time_dimensions[1][1]

HasTimeDimension == req_in.time_dimensions # None

BothRanges(td) == td.date_range # None /\ td.compare_date_range # None

BadEntry(td) ==
    /\ td.compare_date_range # None
    /\ \E i \in 1..Len(td.compare_date_range[1]) :
          /\ td.compare_date_range[1][i].t = "list"
          /\ Len(td.compare_date_range[1][i].l) # 2

(* C12 (as claimed): constructing a TimeDimension fails validation if and     *)
(* only if date_range and compare_date_range are both given or                *)
(* compare_date_range holds a list entry whose length is not 2; every other   *)
(* combination of field values is accepted.                                   *)
C12_FailsIffRangesInvalid ==
    (mpc # "new" /\ HasTimeDimension) =>
        (mpc = "invalid" <=> (BothRanges(TheTimeDimension) \/ BadEntry(TheTimeDimension)))

-----------------------------------------------------------------------------
(* The payload on the wire *)

\* the wire names the specification documents for the renamed fields
WireAlias ==
    [time_dimensions |-> "timeDimensions", date_range |-> "dateRange",
     compare_date_range |-> "compareDateRange", or_ |-> "or", and_ |-> "and"]

WireName(f) == IF f \in DOMAIN WireAlias THEN WireAlias[f] ELSE f

\* d, the dump of the model object obj, has at every nesting level a key for
\* exactly the fields of obj that are not None, each under its wire name and
\* none under a renamed field's internal name
RECURSIVE DumpAgrees(_, _)
DumpAgrees(obj, d) ==
    \A f \in FieldSet(obj.cls) :
        /\ f \in DOMAIN WireAlias => f \notin DOMAIN d
        /\ IF f \in Nullable(obj.cls) /\ obj[f] = None
           THEN WireName(f) \notin DOMAIN d
           ELSE /\ WireName(f) \in DOMAIN d
                /\ f \in ModelFields =>
                      LET v == IF f \in Nullable(obj.cls) THEN obj[f][1] ELSE obj[f]
                      IN /\ Len(d[WireName(f)]) = Len(v)
                         /\ \A i \in 1..Len(v) : DumpAgrees(v[i], d[WireName(f)][i])

\* the same below the top level of the request
NestedAgree(req, d) ==
    \A f \in FieldSet(req.cls) \cap ModelFields :
        WireName(f) \in DOMAIN d =>
            LET v == IF f \in Nullable(req.cls) THEN req[f][1] ELSE req[f]
            IN \A i \in 1..Len(v) : DumpAgrees(v[i], d[WireName(f)][i])

(* C13 (as claimed): for every valid CubeJSRequest the query payload built by *)
(* get_measures has no key for any field left unset, at its default, at any   *)
(* nesting level, and every field that was set appears under its wire alias   *)
(* and not under its internal name.                                           *)
C13_NoKeyForUnsetField ==
    payload.set =>
        /\ \A f \in FieldSet("CubeJSRequest") :
              /\ req_in[f] = None => WireName(f) \notin DOMAIN payload.query
              /\ req_in[f] # None => WireName(f) \in DOMAIN payload.query
              /\ f \in DOMAIN WireAlias => f \notin DOMAIN payload.query
        /\ NestedAgree(request, payload.query)

(* C13 (amended): for every valid CubeJSRequest the query payload built by    *)
(* get_measures has no key for any field whose value is None, at any nesting  *)
(* level; measures and filters, whose default is the empty list, always       *)
(* appear (as [] when left unset); and every field that appears does so under *)
(* its wire alias (timeDimensions, dateRange, compareDateRange, or, and) and  *)
(* not under its internal name.                                               *)
C13_NoKeyForNoneField ==
    payload.set =>
        /\ DumpAgrees(request, payload.query)
        /\ req_in.measures = None => payload.query.measures = <<>>
        /\ req_in.filters = None => payload.query.filters = <<>>

\* a request with no measures, a time dimension with a date range and nested
\* filters has been serialized
C13_Witness ==
    /\ payload.set
    /\ req_in.measures = None
    /\ req_in.filters = Some(<<F1, Nested(MaxDepth)>>)
    /\ req_in.time_dimensions # None
    /\ payload.query.measures = <<>>
    /\ "dateRange" \in DOMAIN payload.query.timeDimensions[1]
    /\ DOMAIN payload.query.filters[2] \in {{"or"}, {"and"}}

\* the time dimensions of the payload sent
WireTimeDimensions ==
    IF payload.set /\ "timeDimensions" \in DOMAIN payload.query
    THEN payload.query.timeDimensions ELSE <<>>

\* the caller's time dimension breaks one of the two date-range rules
BreaksDateRules ==
    HasTimeDimension /\ (BothRanges(TheTimeDimension) \/ BadEntry(TheTimeDimension))

\* the request and the auth are as they were constructed: the lifecycle of
\* the data model, whose objects are not mutated after construction
AsConstructed == assignments = 0

(* C14: in every query payload that get_measures sends for a request as it    *)
(* was constructed, no time dimension has both dateRange and compareDateRange *)
(* and every list entry of compareDateRange has exactly 2 elements; a query   *)
(* breaking these rules fails at object construction and never causes an      *)
(* HTTP call.                                                                 *)
C14_InvalidRangesNeverSent ==
    /\ AsConstructed =>
          \A i \in 1..Len(WireTimeDimensions) :
              LET td == WireTimeDimensions[i] IN
              /\ ~({"dateRange", "compareDateRange"} \subseteq DOMAIN td)
              /\ "compareDateRange" \in DOMAIN td =>
                    \A j \in 1..Len(td.compareDateRange) :
                        td.compareDateRange[j].t = "list" => Len(td.compareDateRange[j].l) = 2
    /\ (BreaksDateRules /\ mpc # "new") =>
          /\ mpc = "invalid"
          /\ verror # "none"
          /\ request = NoRequest
    /\ mpc = "invalid" => (posts = 0 /\ ~payload.set /\ ~client_open)
    /\ posts > 0 => (mpc \in {"sent", "read"} /\ payload.set /\ ~BreaksDateRules)

\* a request comparing two date ranges has been POSTed
C14_Witness ==
    /\ AsConstructed
    /\ mpc = "sent"
    /\ posts = 1
    /\ Len(WireTimeDimensions) = 1
    /\ "compareDateRange" \in DOMAIN WireTimeDimensions[1]
    /\ Len(WireTimeDimensions[1].compareDateRange) = 2
    /\ WireTimeDimensions[1].compareDateRange[1].t = "list"

-----------------------------------------------------------------------------
(* Two calls of get_measures on one event loop.  A coroutine runs without    *)
(* interruption from one await to the next, so a step of a call is: begin    *)
(* and POST; take the answer, classify it and start closing the client;      *)
(* parse and decide; wake and POST again.                                    *)

InitTwo == Init

\* get_measures(auth, request) is called: the retrying object begins, which
\* clears its statistics dictionary and sets attempt_number 1 and idle_for 0
\* (its times are not modelled), tenacity makes the RetryCallState of the call
\* (attempt_number 1) and the first attempt runs up to its POST
Begin(c) ==
    /\ calls[c].pc = "start"
    /\ statistics' = [attempt_number |-> 1, idle_for |-> 0]
    /\ calls' = [calls EXCEPT ![c].pc = "awaiting", ![c].posts = 1]
    /\ UNCHANGED <<callVars, modelVars, peerVars>>

\* lines 74-75: the awaited POST of call c completes with r, _error_handler
\* runs, and the async with block is left: closing the client of a TCP
\* connection gives the event loop a turn before the call goes on
Respond(c, r) ==
    /\ calls[c].pc = "awaiting"
    /\ calls' = [calls EXCEPT ![c].pc = "closing", ![c].seen = Append(@, r)]
    /\ UNCHANGED <<statistics, callVars, modelVars, peerVars>>

\* line 76 and tenacity's decision, once the client of call c is closed: the
\* decision reads the RetryCallState of the call; a retry adds one attempt and
\* the wait to the statistics dictionary of the retrying object
Finish(c) ==
    /\ calls[c].pc = "closing"
    /\ LET r == calls[c].seen[Len(calls[c].seen)]
           e == AttemptException(r)
           n == AttemptNumber(c)
       IN IF e = NoException
          THEN /\ calls' = [calls EXCEPT ![c].pc = "returned",
                                         ![c].result = CubeJSResponse(ResponseJson(r.text))]
               /\ UNCHANGED statistics
          ELSE IF ~ShouldRetry(e)
          THEN /\ calls' = [calls EXCEPT ![c].pc = "raised", ![c].raised = e]
               /\ UNCHANGED statistics
          ELSE IF ShouldStop(n)
          THEN /\ calls' = [calls EXCEPT ![c].pc = "raised",
                                         ![c].raised = RetryError(e)]
               /\ UNCHANGED statistics
          ELSE /\ calls' = [calls EXCEPT
                                ![c].pc = "sleeping",
                                ![c].waits = Append(@, WaitExponential(n)),
                                ![c].attempt_number = @ + 1]
               /\ statistics' =
                      [attempt_number |-> statistics.attempt_number + 1,
                       idle_for |-> statistics.idle_for + WaitExponential(n)]
    /\ UNCHANGED <<callVars, modelVars, peerVars>>

\* the backoff sleep of call c elapses and its next attempt runs up to its POST
WakeOf(c) ==
    /\ calls[c].pc = "sleeping"
    /\ calls' = [calls EXCEPT ![c].pc = "awaiting", ![c].posts = @ + 1]
    /\ UNCHANGED <<statistics, callVars, modelVars, peerVars>>

NextTwo ==
    \/ \E c \in Calls : Begin(c)
    \/ \E c \in Calls, r \in TwoResponses : Respond(c, r)
    \/ \E c \in Calls : Finish(c)
    \/ \E c \in Calls : WakeOf(c)

SpecTwo == InitTwo /\ [][NextTwo]_vars

\* a call that runs alone and is answered rs[i], rs[i+1], ...: where it stands
\* once it has taken all of them, from attempt n with the waits w behind it
RECURSIVE RunAlone(_, _, _, _)
RunAlone(rs, i, n, w) ==
    IF i > Len(rs)
    THEN [pc |-> "awaiting", posts |-> i, waits |-> w,
          result |-> NoValue, raised |-> NoException]
    ELSE LET e == AttemptException(rs[i]) IN
         IF e = NoException
         THEN [pc |-> "returned", posts |-> i, waits |-> w,
               result |-> CubeJSResponse(ResponseJson(rs[i].text)), raised |-> NoException]
         ELSE IF ~ShouldRetry(e)
         THEN [pc |-> "raised", posts |-> i, waits |-> w,
               result |-> NoValue, raised |-> e]
         ELSE IF ShouldStop(n)
         THEN [pc |-> "raised", posts |-> i, waits |-> w,
               result |-> NoValue, raised |-> RetryError(e)]
         ELSE RunAlone(rs, i + 1, n + 1, Append(w, WaitExponential(n)))

Alone(rs) == RunAlone(rs, 1, 1, <<>>)

RECURSIVE SumOf(_)
SumOf(q) == IF q = <<>> THEN 0 ELSE q[1] + SumOf(Tail(q))

\* call c stands where a call running alone with the same answers stands
AsIfAlone(c) ==
    LET a == Alone(calls[c].seen)
        k == calls[c]
    IN \/ k.pc = "start" /\ k.seen = <<>> /\ k.posts = 0 /\ k.waits = <<>>
       \/ /\ k.pc = "closing"
          /\ LET b == Alone(SubSeq(k.seen, 1, Len(k.seen) - 1)) IN
                /\ b.pc = "awaiting"
                /\ k.posts = b.posts
                /\ k.waits = b.waits
                /\ k.result = b.result /\ k.raised = b.raised
       \/ /\ k.pc = "sleeping"
          /\ a.pc = "awaiting"
          /\ k.posts = a.posts - 1
          /\ k.waits = a.waits
          /\ k.result = a.result /\ k.raised = a.raised
       \/ /\ k.pc \in {"awaiting", "returned", "raised"}
          /\ k.pc = a.pc
          /\ k.posts = a.posts
          /\ k.waits = a.waits
          /\ k.result = a.result /\ k.raised = a.raised

(* C16: concurrent get_measures calls are independent instances of the same   *)
(* sequential state machine: under every interleaving of two calls, each      *)
(* call's attempt count, waits and final outcome are determined only by its   *)
(* own sequence of responses and are those of the same call running alone.    *)
C16_CallsIndependent ==
    \A c \in Calls :
        /\ AsIfAlone(c)
        /\ calls[c].posts \in {Len(calls[c].seen), Len(calls[c].seen) + 1}
        /\ calls[c].attempt_number = Len(calls[c].waits) + 1

\* call 1 sleeps before its fourth attempt while call 2, begun after it, is
\* closing the client of its second; the retrying object's statistics are
\* those of neither call
C16_Witness ==
    /\ calls[1].pc = "sleeping"
    /\ calls[1].attempt_number = 4
    /\ calls[1].waits = <<2, 4, 8>>
    /\ calls[2].pc = "closing"
    /\ calls[2].posts = 2
    /\ calls[2].waits = <<2>>
    /\ statistics = [attempt_number |-> 3, idle_for |-> 10]

\* the LogicalOperator of the claim: an OR list holding a Filter and a
\* LogicalOperator with an AND list
NestedOrAnd == LogicalOperator(Some(<<F1, LogicalOperator(None, Some(<<F3, F3>>))>>), None)

(* C17 (as claimed): a nested LogicalOperator whose OR list holds a Filter    *)
(* and a LogicalOperator with an AND list round-trips through serialization:  *)
(* serializing it with wire aliases and reading the result back gives an      *)
(* equal value, with the same nesting depth and the keys "or" and "and" at    *)
(* each level.                                                                *)
C17_NestedRoundTrips ==
    (mpc = "read" /\ request.filters = <<NestedOrAnd>>) =>
        /\ DOMAIN payload.query.filters[1] = {"or"}
        /\ Len(payload.query.filters[1]["or"]) = 2
        /\ DOMAIN payload.query.filters[1]["or"][2] = {"and"}
        /\ Len(payload.query.filters[1]["or"][2]["and"]) = 2
        /\ read_back = Some(request.filters)

-----------------------------------------------------------------------------
(* One call with the auth and the request the caller passes: what it sends   *)

Auths == {TheAuth, CubeJSAuth("Bearer abc", "http://localhost:4000")}

\* valid requests with and without a time dimension and nested filters
WireInputs ==
    {in \in RequestInputs :
        /\ ConstructionError(in) = "none"
        /\ in.measures # None /\ in.dimensions # None /\ in.segments = None
        /\ in.order = None /\ in.limit # None /\ in.offset = None
        /\ in.filters \in {None, Some(<<F1, Nested(MaxDepth)>>)}
        /\ in.time_dimensions # None =>
              /\ in.time_dimensions[1][1].granularity # None
              /\ in.time_dimensions[1][1].date_range = Some(List(<<D1, D2>>))}

InitWire ==
    /\ pc = "attempt"
    /\ attempt_number = 1
    /\ posts = 0
    /\ client_open = FALSE
    /\ clients_opened = 0
    /\ clients_closed = 0
    /\ response = NoResponse
    /\ exc = NoException
    /\ value = NoValue
    /\ log = <<>>
    /\ waits = <<>>
    /\ raised = NoException
    /\ result = NoValue
    /\ wire = <<>>
    /\ dripping = FALSE
    /\ mpc = "called"
    /\ auth \in Auths
    /\ req_in \in WireInputs
    /\ request = CubeJSRequest(req_in)
    /\ verror = "none"
    /\ payload = NoPayload
    /\ read_back = None
    /\ assignments = 0
    /\ calls = [c \in Calls |-> NewCall]
    /\ statistics = NoStatistics

\* lines 73-75: the call is leaving the async with block after an answer.
\* _error_handler has run and the client is marked closed; closing the
\* connection gives the event loop a turn before line 76 or tenacity's
\* decision.  After a failed POST the close does not suspend
InsideAexit ==
    \/ pc = "parse"
    \/ /\ pc = "decide"
       /\ response # NoResponse
       /\ exc # NoException
       /\ exc = ErrorHandler(response)

\* the call is suspended: at its POST, while its client closes, or in a
\* backoff sleep
Suspended == pc \in {"awaiting", "sleeping"} \/ InsideAexit

\* while the call is suspended, another task of the event loop assigns to the
\* auth or to the request the call was given.  The classes allow it; the
\* lifecycle of the data model does not include it, and the arguments are no
\* longer AsConstructed
Mutate ==
    /\ Suspended
    /\ assignments < MaxAssignments
    /\ assignments' = assignments + 1
    /\ \/ /\ \E a \in Auths : auth' = SetAttr(auth, "token", a.token)
          /\ UNCHANGED request
       \/ /\ \E a \in Auths : auth' = SetAttr(auth, "host", a.host)
          /\ UNCHANGED request
       \/ /\ Len(request.measures) < MaxMeasures
          /\ request' = SetAttr(request, "measures", Append(request.measures, "orders.total"))
          /\ UNCHANGED auth
       \/ /\ request.time_dimensions # None
          /\ \E a \in RangeAssignments :
                request' = SetTimeDimensionAttr(request, a[1], a[2])
          /\ UNCHANGED auth
    /\ UNCHANGED <<mpc, req_in, verror, payload, read_back>>
    /\ UNCHANGED <<callVars, twoVars, peerVars>>

\* the steps of the call, the server answering with one response of each
\* outcome of the classifier
NextWire ==
    \/ Mutate
    \/ Post /\ UNCHANGED <<modelVars, twoVars, peerVars>>
    \/ (\E r \in TwoResponses \ {TransportFailure} : Receive(r.status_code, r.text))
          /\ UNCHANGED <<modelVars, twoVars>>
    \/ TransportFails /\ UNCHANGED <<modelVars, twoVars>>
    \/ Classify /\ UNCHANGED <<modelVars, twoVars, peerVars>>
    \/ Parse /\ UNCHANGED <<modelVars, twoVars, peerVars>>
    \/ Decide /\ UNCHANGED <<modelVars, twoVars, peerVars>>
    \/ Wake /\ UNCHANGED <<modelVars, twoVars, peerVars>>

SpecWire == InitWire /\ [][NextWire]_vars

\* a step of the call itself
CallStep == pc' # pc

(* C22: get_measures leaves auth and request unchanged, and every attempt of  *)
(* one call sends exactly one POST to {host}/cubejs-api/v1/load with header   *)
(* Authorization equal to the token and the same {"query": ...} payload as    *)
(* the first attempt, for arguments that stay as they were constructed; the   *)
(* classifier itself makes no retry and no second request.                    *)
C22_SamePostEveryAttempt ==
    /\ [](/\ Len(wire) = posts
          /\ posts \in {Len(log), Len(log) + 1}
          /\ AsConstructed =>
                /\ auth \in Auths
                /\ request = CubeJSRequest(req_in)
                /\ \A i \in 1..Len(wire) :
                      /\ wire[i].method = "POST"
                      /\ wire[i].url = auth.host \o "/cubejs-api/v1/load"
                      /\ wire[i].headers = [Authorization |-> auth.token]
                      /\ DOMAIN wire[i].json = {"query"}
                      /\ wire[i].json.query = ModelDump(request)
                      /\ wire[i] = wire[1])
    /\ [][CallStep => (auth' = auth /\ request' = request)]_vars
    /\ [][posts' # posts => (posts' = posts + 1 /\ Len(wire') = Len(wire) + 1)]_vars
    /\ [][pc = "classify" =>
            (posts' = posts /\ wire' = wire /\ pc' \in {"parse", "decide"})]_vars

\* the third attempt has sent the same POST as the first, for a request with
\* a time dimension and nested filters
C22_Witness ==
    /\ AsConstructed
    /\ pc = "awaiting"
    /\ posts = 3
    /\ Len(wire) = 3
    /\ wire[3] = wire[1]
    /\ wire[3].url = "http://localhost:4000/cubejs-api/v1/load"
    /\ wire[3].headers.Authorization = "Bearer abc"
    /\ {"timeDimensions", "filters", "measures"} \subseteq DOMAIN wire[3].json.query
    /\ Len(wire[3].json.query.filters) = 2

====
